---- MODULE Spec2Model ----
(***************************************************************************)
(* Validation and canonicalization layer of bike_builds_api.model.         *)
(*                                                                         *)
(* Python strings are modelled as sequences of one-character strings, so   *)
(* that lower(), replace(), re.sub() and re.findall() are computed         *)
(* character by character as the code computes them.                       *)
(***************************************************************************)
EXTENDS Integers, Sequences, FiniteSets, TLC

VARIABLES
    name,       \* canonicalizer: the display name handed to the canonicalizer
    canon,      \* canonicalizer: re.sub(..., id_from_name(name))
    canon2,     \* canonicalizer: the same pass applied to canon
    cpc,        \* canonicalizer: "start", "once", "twice"
    ent,        \* named entity: the NamedBaseModel / Part instance
    call,       \* named entity: the last constructor call or assignment
    result,     \* named entity: "none", "ok" or "error" (ValidationError)
    cls,        \* construction: the class whose constructor was called
    payload,    \* construction: the key/value mapping handed to it
    obj,        \* construction: the validated instance, or Null
    outcome,    \* construction: "none", "ok" or "error" (ValidationError)
    wire,       \* round trip: the serialized form of obj (model_dump)
    dumped,     \* round trip: "none", "ok" or "error" (serialization error)
    obj2,       \* round trip: the instance validated from wire
    outcome2,   \* round trip: "none", "ok" or "error" (ValidationError)
    assigned    \* mutation: the last field assignment on obj and its outcome

canonVars == <<name, canon, canon2, cpc>>
namedVars == <<ent, call, result>>
consVars == <<cls, payload, obj, outcome>>
tripVars == <<wire, dumped, obj2, outcome2>>

vars == <<canonVars, namedVars, consVars, tripVars, assigned>>

(***************************************************************************)
(* Bounds                                                                  *)
(***************************************************************************)
MaxNameLen == 3
MaxEntityNameLen == 2
MaxSegments == 4
MaxClock == 1

(***************************************************************************)
(* Program constants                                                       *)
(***************************************************************************)
NameMinLength == 1
NameMaxLength == 200
RatingMax == 5

(***************************************************************************)
(* Strings                                                                 *)
(***************************************************************************)
\* Python's None in a slot typed `str | None`: no string of characters.
NoneStr == <<"<None>">>

UpperLetters ==
    <<"A","B","C","D","E","F","G","H","I","J","K","L","M",
      "N","O","P","Q","R","S","T","U","V","W","X","Y","Z">>

LowerLetters ==
    <<"a","b","c","d","e","f","g","h","i","j","k","l","m",
      "n","o","p","q","r","s","t","u","v","w","x","y","z">>

Digits == {"0","1","2","3","4","5","6","7","8","9"}

Range(s) == {s[i] : i \in DOMAIN s}

\* _ID_CHARACTERS = r'a-z0-9_'
_ID_CHARACTERS == Range(LowerLetters) \cup Digits \cup {"_"}

\* str.lower() on one character
LowerChar(c) ==
    IF \E i \in DOMAIN UpperLetters : UpperLetters[i] = c
    THEN LowerLetters[CHOOSE i \in DOMAIN UpperLetters : UpperLetters[i] = c]
    ELSE c

\* str.lower()
StrLower(s) == [i \in DOMAIN s |-> LowerChar(s[i])]

\* str.replace(old, new) for one-character old and new
StrReplace(s, old, new) == [i \in DOMAIN s |-> IF s[i] = old THEN new ELSE s[i]]

\* Sequences over S of length lo..hi
SeqsOf(S, lo, hi) == UNION {[1..n -> S] : n \in lo..hi}

\* pydantic.StringConstraints(pattern=_ID_PATTERN), _ID_PATTERN = ^[a-z0-9_]+$
_ID_PATTERN(s) == Len(s) >= 1 /\ \A i \in DOMAIN s : s[i] \in _ID_CHARACTERS

\* NamedBaseModel.id_from_name
id_from_name(n) ==
    StrReplace(StrReplace(StrReplace(StrLower(n), " ", "_"), "-", "_"), ".", "_")

\* re.sub(..., '', s, count=1): a pass that stops after the first removal
StripFirstNonId(s) ==
    IF \A i \in DOMAIN s : s[i] \in _ID_CHARACTERS
    THEN s
    ELSE LET k == CHOOSE i \in DOMAIN s :
                    /\ s[i] \notin _ID_CHARACTERS
                    /\ \A j \in 1..(i - 1) : s[j] \in _ID_CHARACTERS
         IN  SubSeq(s, 1, k - 1) \o SubSeq(s, k + 1, Len(s))

\* re.sub(_NON_ID_CHARACTERS_PATTERN, '', s)
StripNonId(s) == SelectSeq(s, LAMBDA c : c \in _ID_CHARACTERS)

\* The canonicalizer: the expression NamedBaseModel.infer_id assigns to id
Canonicalize(n) == StripNonId(id_from_name(n))

(***************************************************************************)
(* Canonicalizer as a pure function applied to bounded inputs              *)
(***************************************************************************)
NameChars == {"X", "a", "0", " ", "-", ".", "_", "("}

Names == SeqsOf(NameChars, 1, MaxNameLen)

IdleNamed ==
    /\ ent = [kind |-> "none", name |-> <<>>, id |-> NoneStr,
              manufacturer_id |-> NoneStr]
    /\ call = [op |-> "none", kind |-> "none", name |-> <<>>, id |-> NoneStr,
               manufacturer_id |-> NoneStr]
    /\ result = "none"

IdleCons ==
    /\ cls = "none"
    /\ payload = << >>
    /\ obj = [t |-> "null"]
    /\ outcome = "none"

NotAssigned == [field |-> "none", value |-> [t |-> "null"], result |-> "none"]

IdleTrip ==
    /\ assigned = NotAssigned
    /\ wire = << >>
    /\ dumped = "none"
    /\ obj2 = [t |-> "null"]
    /\ outcome2 = "none"

IdleCanon ==
    /\ name = <<>>
    /\ canon = NoneStr
    /\ canon2 = NoneStr
    /\ cpc = "idle"

InitCanon ==
    /\ name \in Names
    /\ canon = NoneStr
    /\ canon2 = NoneStr
    /\ cpc = "start"
    /\ IdleNamed
    /\ IdleCons
    /\ IdleTrip

CanonOnce ==
    /\ cpc = "start"
    /\ canon' = Canonicalize(name)
    /\ cpc' = "once"
    /\ UNCHANGED <<name, canon2, namedVars, consVars, tripVars, assigned>>

CanonTwice ==
    /\ cpc = "once"
    /\ canon2' = Canonicalize(canon)
    /\ cpc' = "twice"
    /\ UNCHANGED <<name, canon, namedVars, consVars, tripVars, assigned>>

NextCanon == CanonOnce \/ CanonTwice

SpecCanon == InitCanon /\ [][NextCanon]_vars

\* C8: for every non-empty display name n, canonicalize(canonicalize(n)) =
\* canonicalize(n); canonicalize('Brooks England') = 'brooks_england' and
\* canonicalize('SRAM X0 (2019)') = 'sram_x0_2019'.
C8_CanonicalizeIdempotent ==
    /\ cpc = "twice" => canon2 = canon
    /\ Canonicalize(<<"B","r","o","o","k","s"," ","E","n","g","l","a","n","d">>)
         = <<"b","r","o","o","k","s","_","e","n","g","l","a","n","d">>
    /\ Canonicalize(<<"S","R","A","M"," ","X","0"," ","(","2","0","1","9",")">>)
         = <<"s","r","a","m","_","x","0","_","2","0","1","9">>

\* C8 witness: the second pass has run on a name that the first pass lower-cased,
\* replaced in and stripped from.
C8_Witness ==
    /\ cpc = "twice"
    /\ name = <<"X", " ", "(">>
    /\ canon = <<"x", "_">>
    /\ canon2 = canon

\* C1: for every non-empty display name n, canonicalize(n) returns an Identifier,
\* a string matching ^[a-z0-9_]+$ (so a NamedEntity built from any name of 1-200
\* characters and no explicit id gets such an id).
C1_CanonicalizeYieldsIdentifier ==
    cpc \in {"once", "twice"} => _ID_PATTERN(canon)

(***************************************************************************)
(* Named entities: NamedBaseModel (Manufacturer, Variant, Shop) and Part   *)
(***************************************************************************)
\* name: Annotated[str, Field(min_length=1, max_length=200)]
ValidName(n) == Len(n) >= NameMinLength /\ Len(n) <= NameMaxLength

\* id: ID | None
ValidIdField(i) == i = NoneStr \/ _ID_PATTERN(i)

\* infer_id with the `if self.id is not None` guard dropped
NamedBaseModel_infer_id_always(e) == [e EXCEPT !.id = Canonicalize(e.name)]

\* NamedBaseModel.infer_id: the value of self after the validator's body
NamedBaseModel_infer_id(e) ==
    IF e.id # NoneStr
    THEN e
    ELSE [e EXCEPT !.id = StripNonId(id_from_name(e.name))]

\* Part.infer_id without the manufacturer prefix (the inherited rule)
Part_infer_id_unprefixed(e) ==
    IF e.id # NoneStr
    THEN e
    ELSE [e EXCEPT !.id = StripNonId(id_from_name(e.name))]

\* Part.infer_id: f"{self.manufacturer_id}_{self.id_from_name(self.name)}"
Part_infer_id(e) ==
    IF e.id # NoneStr
    THEN e
    ELSE [e EXCEPT !.id =
            StripNonId(e.manufacturer_id \o <<"_">> \o id_from_name(e.name))]

\* The model validator (mode='after') of the entity's class
infer_id(e) ==
    IF e.kind = "Part" THEN Part_infer_id(e) ELSE NamedBaseModel_infer_id(e)

\* validate_assignment=True: `self.id = ...` inside the validator is itself
\* validated against ID | None and raises when the pattern does not match.
InferRaises(e) == e.id = NoneStr /\ ~_ID_PATTERN(infer_id(e).id)

NamedKinds == {"Manufacturer", "Variant", "Shop"}

EntityNameChars == {"X", "0", " ", "("}

EntityNames == SeqsOf(EntityNameChars, 0, MaxEntityNameLen)

ExplicitIds == {<<"i", "d">>, <<"I", "D">>}

ManufacturerIds == {<<"s","r","a","m">>, <<"f","o","x">>}

Unconstructed ==
    [kind |-> "none", name |-> <<>>, id |-> NoneStr, manufacturer_id |-> NoneStr]

\* Step 1 of construction: every supplied field against its declared
\* constraint. Only name, id and manufacturer_id are followed here; the other
\* fields of the class are supplied and valid.
FieldsValid(kind, n, i, m) ==
    /\ ValidName(n)
    /\ ValidIdField(i)
    /\ IF kind = "Part" THEN _ID_PATTERN(m) ELSE m = NoneStr

\* Manufacturer(...), Variant(...), Shop(...), Part(...): all-or-nothing
Construct(kind, n, i, m) ==
    LET e0 == [kind |-> kind, name |-> n, id |-> i, manufacturer_id |-> m]
        ok == FieldsValid(kind, n, i, m) /\ ~InferRaises(e0)
    IN  /\ call' = [op |-> "construct", kind |-> kind, name |-> n, id |-> i,
                    manufacturer_id |-> m]
        /\ ent' = IF ok THEN infer_id(e0) ELSE ent
        /\ result' = IF ok THEN "ok" ELSE "error"
        /\ UNCHANGED <<canonVars, consVars, tripVars, assigned>>

ConstructNamed ==
    /\ ent.kind = "none"
    /\ \E kind \in NamedKinds, n \in EntityNames, i \in ExplicitIds \cup {NoneStr} :
        Construct(kind, n, i, NoneStr)

ConstructNamedPart ==
    /\ ent.kind = "none"
    /\ \E n \in EntityNames, i \in ExplicitIds \cup {NoneStr},
          m \in ManufacturerIds \cup {<<"S">>} :
        Construct("Part", n, i, m)

\* validate_assignment after the field itself validated: the instance's fields
\* are replaced by e1, then the model validator runs on the instance; when its
\* own assignment raises, the instance keeps e1.
AfterAssignment(e1) ==
    IF InferRaises(e1)
    THEN [ent |-> e1, result |-> "error"]
    ELSE [ent |-> infer_id(e1), result |-> "ok"]

\* entity.name = n
AssignName ==
    \E n \in EntityNames :
        LET out == AfterAssignment([ent EXCEPT !.name = n])
        IN  /\ ent.kind # "none"
            /\ call' = [op |-> "assign_name", kind |-> ent.kind, name |-> n,
                        id |-> NoneStr, manufacturer_id |-> NoneStr]
            /\ ent' = IF ValidName(n) THEN out.ent ELSE ent
            /\ result' = IF ValidName(n) THEN out.result ELSE "error"
            /\ UNCHANGED <<canonVars, consVars, tripVars, assigned>>

\* entity.id = i (i = None clears the id)
AssignId ==
    \E i \in ExplicitIds \cup {NoneStr} :
        LET out == AfterAssignment([ent EXCEPT !.id = i])
        IN  /\ ent.kind # "none"
            /\ call' = [op |-> "assign_id", kind |-> ent.kind, name |-> <<>>,
                        id |-> i, manufacturer_id |-> NoneStr]
            /\ ent' = IF ValidIdField(i) THEN out.ent ELSE ent
            /\ result' = IF ValidIdField(i) THEN out.result ELSE "error"
            /\ UNCHANGED <<canonVars, consVars, tripVars, assigned>>

InitNamed ==
    /\ ent = Unconstructed
    /\ call = [op |-> "none", kind |-> "none", name |-> <<>>, id |-> NoneStr,
               manufacturer_id |-> NoneStr]
    /\ result = "none"
    /\ IdleCanon
    /\ IdleCons
    /\ IdleTrip

NextNamed == ConstructNamed \/ ConstructNamedPart \/ AssignName \/ AssignId

SpecNamed == InitNamed /\ [][NextNamed]_vars

\* C4: once a NamedEntity's id is set, an assignment to name (accepted or
\* rejected) leaves id unchanged.
C4_NameAssignmentKeepsId ==
    [][(ent.id # NoneStr /\ call'.op = "assign_name") => ent'.id = ent.id]_vars

\* C4 witness: an accepted name assignment gave the entity a name whose
\* canonical form differs from the id it keeps.
C4_Witness ==
    /\ call.op = "assign_name"
    /\ result = "ok"
    /\ ent.kind \in NamedKinds
    /\ ent.id # NoneStr
    /\ ent.id # Canonicalize(ent.name)
    /\ _ID_PATTERN(Canonicalize(ent.name))

\* C7: a Part constructed without an explicit id gets
\* id = manufacturer_id + '_' + canonicalize(name); manufacturer_id 'sram' and
\* name 'X0' give 'sram_x0'; the same name under another manufacturer_id gives
\* another id.
C7_PartIdNamespaced ==
    /\ (call.op = "construct" /\ call.kind = "Part" /\ call.id = NoneStr
          /\ result = "ok")
        => /\ ent.id = call.manufacturer_id \o <<"_">> \o Canonicalize(call.name)
           /\ \A m \in ManufacturerIds \ {call.manufacturer_id} :
                  Part_infer_id([ent EXCEPT !.id = NoneStr,
                                            !.manufacturer_id = m]).id # ent.id
    /\ Part_infer_id([kind |-> "Part", name |-> <<"X", "0">>, id |-> NoneStr,
                      manufacturer_id |-> <<"s","r","a","m">>]).id
         = <<"s","r","a","m","_","x","0">>

\* C7 witness: a Part built from manufacturer_id 'sram' and name 'X0', no id.
C7_Witness ==
    /\ call.op = "construct"
    /\ call.kind = "Part"
    /\ call.id = NoneStr
    /\ call.name = <<"X", "0">>
    /\ call.manufacturer_id = <<"s","r","a","m">>
    /\ result = "ok"
    /\ ent.id = <<"s","r","a","m","_","x","0">>

(***************************************************************************)
(* Values crossing the validation boundary                                 *)
(***************************************************************************)
Null == [t |-> "null"]
Absent == [t |-> "absent"]          \* the key is not in the mapping
Bool(b) == [t |-> "bool", v |-> b]
\* A Python int or float
Num(n) == [t |-> "num", v |-> n]
Str(s) == [t |-> "str", v |-> s]
Obj(f) == [t |-> "obj", v |-> f]
Date(d) == [t |-> "date", v |-> d]
Enum(s) == [t |-> "enum", v |-> s]
DateTime(n) == [t |-> "datetime", v |-> n]
List(q) == [t |-> "list", v |-> q]
\* A validated pydantic.HttpUrl
Url(s) == [t |-> "url", v |-> s]
\* scrape_api.ScrapeField: an extraction directive, opaque to this package
Directive == [t |-> "ScrapeField"]

\* The mapping holding the keys of r that are supplied
Payload(r) == [k \in {k \in DOMAIN r : r[k] # Absent} |-> r[k]]

\* A field declared `= None`: the supplied value, or the default
Field(p, k) == IF k \in DOMAIN p THEN p[k] ELSE Null

Rejected == [ok |-> FALSE, val |-> Null]
Accepted(v) == [ok |-> TRUE, val |-> v]

IsText(v) == v.t = "str"
IsOptText(v) == v.t \in {"null", "str"}
IsOptBool(v) == v.t \in {"null", "bool"}
IsID(v) == v.t = "str" /\ _ID_PATTERN(v.v)

\* Rating = Annotated[NonNegativeInt, Field(le=5)], as `Rating | None`
IsOptRating(v) == v.t = "null" \/ (v.t = "num" /\ v.v >= 0 /\ v.v <= RatingMax)

(***************************************************************************)
(* Price, PriceTag, ProductPricing                                         *)
(***************************************************************************)
\* class Price: value: float, currency: str; extra='forbid'
Price_validate(p) ==
    IF /\ DOMAIN p = {"value", "currency"}
       /\ p["value"].t = "num"
       /\ IsText(p["currency"])
    THEN Accepted(Obj(p))
    ELSE Rejected

IsOptPrice(v) == v.t = "null" \/ (v.t = "obj" /\ Price_validate(v.v).ok)

\* class PriceTag: four optional fields, extra='ignore', no model validator
PriceTag_validate(p) ==
    IF /\ IsOptPrice(Field(p, "price"))
       /\ IsOptBool(Field(p, "discount"))
       /\ IsOptBool(Field(p, "available"))
       /\ IsOptRating(Field(p, "rating"))
    THEN Accepted(Obj([price |-> Field(p, "price"),
                       discount |-> Field(p, "discount"),
                       available |-> Field(p, "available"),
                       rating |-> Field(p, "rating")]))
    ELSE Rejected

\* A field typed PriceTag: required, a mapping validated as a PriceTag
PriceTagField(p) ==
    IF "price_tag" \in DOMAIN p /\ p["price_tag"].t = "obj"
    THEN PriceTag_validate(p["price_tag"].v)
    ELSE Rejected

\* class ProductPricing: timestamp, part_id, variant_id, shop_id, price_tag
ProductPricing_validate(p) ==
    IF /\ DOMAIN p = {"timestamp", "part_id", "variant_id", "shop_id", "price_tag"}
       /\ p["timestamp"].t = "date"
       /\ IsID(p["part_id"])
       /\ IsID(p["variant_id"])
       /\ IsID(p["shop_id"])
       /\ PriceTagField(p).ok
    THEN Accepted(Obj([timestamp |-> p["timestamp"], part_id |-> p["part_id"],
                       variant_id |-> p["variant_id"], shop_id |-> p["shop_id"],
                       price_tag |-> PriceTagField(p).val]))
    ELSE Rejected

(***************************************************************************)
(* ScrapeResult                                                            *)
(***************************************************************************)
ScrapeResult_fields ==
    {"name", "manufacturer", "price", "discount", "available", "rating", "part"}

\* extra='ignore' in place of the inherited extra='forbid'
ScrapeResult_extra_ignored(p) == TRUE

\* _BaseModel: extra='forbid'
ScrapeResult_extra_allowed(p) == DOMAIN p \subseteq ScrapeResult_fields

\* class ScrapeResult
ScrapeResult_validate(p) ==
    IF /\ ScrapeResult_extra_allowed(p)
       /\ IsOptText(Field(p, "name"))
       /\ IsOptText(Field(p, "manufacturer"))
       /\ Field(p, "price").t \in {"null", "num"}
       /\ IsOptBool(Field(p, "discount"))
       /\ IsOptBool(Field(p, "available"))
       /\ IsOptRating(Field(p, "rating"))
       /\ IsOptText(Field(p, "part"))
    THEN Accepted(Obj([k \in ScrapeResult_fields |-> Field(p, k)]))
    ELSE Rejected

(***************************************************************************)
(* Scrape configuration: ScrapeFields and PageScrapeConfig                 *)
(***************************************************************************)
ScrapeFieldsClasses == {"ScrapeFields", "PartScrapeFields", "SearchScrapeFields"}

\* model_fields of the class
ScrapeFields_model_fields(c) ==
    {"name", "manufacturer", "price", "available", "rating", "discount"}
        \cup (IF c = "SearchScrapeFields" THEN {"part"} ELSE {})

\* The targets redeclared without `| None = None`
ScrapeFields_required(c) ==
    IF c = "PartScrapeFields" THEN {"price"}
    ELSE IF c = "SearchScrapeFields" THEN {"part"}
    ELSE {}

\* The class without its model validator
no_target_check(c, p) == TRUE

\* ScrapeFields.validate_at_least_one_target
validate_at_least_one_target(c, p) ==
    \E field \in ScrapeFields_model_fields(c) : Field(p, field) # Null

\* ScrapeFields(...), PartScrapeFields(...), SearchScrapeFields(...)
ScrapeFields_validate(c, p) ==
    IF /\ DOMAIN p \subseteq ScrapeFields_model_fields(c)
       /\ \A k \in ScrapeFields_required(c) : k \in DOMAIN p /\ p[k] = Directive
       /\ \A k \in ScrapeFields_model_fields(c) : Field(p, k) \in {Null, Directive}
       /\ validate_at_least_one_target(c, p)
    THEN Accepted(Obj([k \in ScrapeFields_model_fields(c) |-> Field(p, k)]))
    ELSE Rejected

Newline == "\n"

\* The index of the first '}' after position i, or 0
FirstClose(v, i) ==
    IF \E j \in (i + 1)..Len(v) : v[j] = "}"
    THEN CHOOSE j \in (i + 1)..Len(v) :
            v[j] = "}" /\ \A k \in (i + 1)..(j - 1) : v[k] # "}"
    ELSE 0

\* Whether r'{(.*?)}' matches at position i: '.' matches no newline
MatchesAt(v, i) ==
    /\ v[i] = "{"
    /\ FirstClose(v, i) # 0
    /\ \A k \in (i + 1)..(FirstClose(v, i) - 1) : v[k] # Newline

\* re.findall(r'{(.*?)}', v) scanning from position i: the captured groups of
\* the leftmost non-overlapping matches
RECURSIVE re_findall(_, _)
re_findall(v, i) ==
    IF i > Len(v) THEN << >>
    ELSE IF MatchesAt(v, i)
         THEN <<SubSeq(v, i + 1, FirstClose(v, i) - 1)>>
                  \o re_findall(v, FirstClose(v, i) + 1)
         ELSE re_findall(v, i + 1)

PageScrapeConfigClasses == {"PartScrapeConfig", "SearchScrapeConfig"}

\* _URL_VARIABLES of PartScrapeConfig and of SearchScrapeConfig
_URL_VARIABLES(c) ==
    IF c = "PartScrapeConfig"
    THEN {<<"p","a","r","t">>, <<"v","a","r","i","a","n","t">>}
    ELSE {<<"q","u","e","r","y">>}

\* validate_url_extra without `assert results`
validate_url_extra_no_empty_check(c, v) ==
    \A i \in DOMAIN re_findall(v, 1) : re_findall(v, 1)[i] \in _URL_VARIABLES(c)

\* PageScrapeConfig.validate_url_extra: TRUE when no assertion fails
validate_url_extra(c, v) ==
    LET results == re_findall(v, 1)
    IN  /\ results # << >>
        /\ \A i \in DOMAIN results : results[i] \in _URL_VARIABLES(c)

\* The ScrapeFields class of the config's `fields`
FieldsClass(c) ==
    IF c = "PartScrapeConfig" THEN "PartScrapeFields" ELSE "SearchScrapeFields"

\* PartScrapeConfig(...), SearchScrapeConfig(...): url_extra: str, fields
PageScrapeConfig_validate(c, p) ==
    IF /\ DOMAIN p = {"url_extra", "fields"}
       /\ IsText(p["url_extra"])
       /\ validate_url_extra(c, p["url_extra"].v)
       /\ p["fields"].t = "obj"
       /\ ScrapeFields_validate(FieldsClass(c), p["fields"].v).ok
    THEN Accepted(Obj([url_extra |-> p["url_extra"],
                       fields |-> ScrapeFields_validate(FieldsClass(c),
                                                        p["fields"].v).val]))
    ELSE Rejected

(***************************************************************************)
(* URL = Annotated[pydantic.HttpUrl, PlainSerializer(unicode_string)]      *)
(***************************************************************************)
HasPrefix(s, pre) == Len(s) >= Len(pre) /\ SubSeq(s, 1, Len(pre)) = pre

SchemeHttp == <<"h","t","t","p",":","/","/">>
SchemeHttps == <<"h","t","t","p","s",":","/","/">>

\* The length of the scheme prefix (matched without regard to case), or 0
SchemeLen(s) ==
    IF HasPrefix(StrLower(s), SchemeHttp) THEN Len(SchemeHttp)
    ELSE IF HasPrefix(StrLower(s), SchemeHttps) THEN Len(SchemeHttps)
    ELSE 0

\* The index of the last character of the host
HostEnd(s) ==
    IF \E i \in (SchemeLen(s) + 1)..Len(s) : s[i] = "/"
    THEN (CHOOSE i \in (SchemeLen(s) + 1)..Len(s) :
            s[i] = "/" /\ \A j \in (SchemeLen(s) + 1)..(i - 1) : s[j] # "/") - 1
    ELSE Len(s)

\* HttpUrl accepts http and https urls with a host
HttpUrl_ok(s) == SchemeLen(s) > 0 /\ HostEnd(s) > SchemeLen(s)

\* The url as HttpUrl holds it: scheme and host lower-cased, an empty path
\* replaced by '/'
HttpUrl_parse(s) ==
    StrLower(SubSeq(s, 1, HostEnd(s)))
        \o (IF HostEnd(s) = Len(s) THEN <<"/">>
            ELSE SubSeq(s, HostEnd(s) + 1, Len(s)))

\* A field typed URL
URL_validate(v) ==
    IF v.t = "url" THEN Accepted(v)
    ELSE IF v.t = "str" /\ HttpUrl_ok(v.v) THEN Accepted(Url(HttpUrl_parse(v.v)))
    ELSE Rejected

\* A field typed URL | None
OptURL_validate(v) == IF v = Null THEN Accepted(Null) ELSE URL_validate(v)

\* PlainSerializer(lambda x: x.unicode_string(), str): None has no
\* unicode_string, so the call raises
URL_serialize(v) == IF v.t = "url" THEN Accepted(Str(v.v)) ELSE Rejected

\* The serializer of URL | None: None is serialized by the None branch
OptURL_serialize(v) == IF v = Null THEN Accepted(Null) ELSE URL_serialize(v)

(***************************************************************************)
(* Listing, Variant, Part, Manufacturer, Shop                              *)
(***************************************************************************)
\* class Variables: part: str; extra='forbid'
IsOptVariables(v) ==
    v = Null \/ (v.t = "obj" /\ DOMAIN v.v = {"part"} /\ IsText(v.v["part"]))

Listing_fields ==
    {"last_modified", "url", "name", "manufacturer", "price_tag", "variables"}

\* class Listing; now is what default_factory=datetime.datetime.utcnow returns
Listing_validate(p, now) ==
    IF /\ DOMAIN p \subseteq Listing_fields
       /\ "last_modified" \in DOMAIN p => p["last_modified"].t = "datetime"
       /\ OptURL_validate(Field(p, "url")).ok
       /\ IsOptText(Field(p, "name"))
       /\ IsOptText(Field(p, "manufacturer"))
       /\ PriceTagField(p).ok
       /\ IsOptVariables(Field(p, "variables"))
    THEN Accepted(Obj([last_modified |-> IF "last_modified" \in DOMAIN p
                                         THEN p["last_modified"]
                                         ELSE DateTime(now),
                       url |-> OptURL_validate(Field(p, "url")).val,
                       name |-> Field(p, "name"),
                       manufacturer |-> Field(p, "manufacturer"),
                       price_tag |-> PriceTagField(p).val,
                       variables |-> Field(p, "variables")]))
    ELSE Rejected

\* Listing.model_dump()
Listing_dump(o) ==
    IF OptURL_serialize(o.v.url).ok
    THEN Accepted([o.v EXCEPT !.url = OptURL_serialize(o.v.url).val])
    ELSE Rejected

\* The name and id fields of a NamedBaseModel, each against its constraint
NamedFieldsValid(p) ==
    /\ "name" \in DOMAIN p
    /\ IsText(p["name"])
    /\ ValidName(p["name"].v)
    /\ Field(p, "id") = Null \/ IsID(Field(p, "id"))

\* The instance the model validator infer_id sees
NamedEntity(kind, p) ==
    [kind |-> kind,
     name |-> p["name"].v,
     id |-> IF Field(p, "id") = Null THEN NoneStr ELSE p["id"].v,
     manufacturer_id |-> IF kind = "Part" THEN p["manufacturer_id"].v ELSE NoneStr]

\* The id after infer_id
InferredId(kind, p) == Str(infer_id(NamedEntity(kind, p)).id)

\* listings: dict[ID, Listing]
ListingsValid(v, now) ==
    /\ v.t = "obj"
    /\ \A k \in DOMAIN v.v :
          /\ _ID_PATTERN(k)
          /\ v.v[k].t = "obj"
          /\ Listing_validate(v.v[k].v, now).ok

Variant_fields == {"name", "id", "year", "product_code", "on_wish_list", "listings"}

\* class Variant; `listings: dict[ID, Listing] = None`: the default is not
\* validated, a supplied value is
Variant_validate(p, now) ==
    IF /\ DOMAIN p \subseteq Variant_fields
       /\ NamedFieldsValid(p)
       /\ Field(p, "year").t \in {"null", "num"}
       /\ IsOptText(Field(p, "product_code"))
       /\ "on_wish_list" \in DOMAIN p => p["on_wish_list"].t = "bool"
       /\ "listings" \in DOMAIN p => ListingsValid(p["listings"], now)
       /\ ~InferRaises(NamedEntity("Variant", p))
    THEN Accepted(Obj([name |-> p["name"],
                       id |-> InferredId("Variant", p),
                       year |-> Field(p, "year"),
                       product_code |-> Field(p, "product_code"),
                       on_wish_list |-> IF "on_wish_list" \in DOMAIN p
                                        THEN p["on_wish_list"]
                                        ELSE Bool(FALSE),
                       listings |-> IF "listings" \in DOMAIN p
                                    THEN Obj([k \in DOMAIN p["listings"].v |->
                                                Listing_validate(p["listings"].v[k].v,
                                                                 now).val])
                                    ELSE Null]))
    ELSE Rejected

\* Variant.model_dump(): a listings of None is written as None
Variant_dump(o) ==
    IF o.v.listings = Null
    THEN Accepted(o.v)
    ELSE IF \A k \in DOMAIN o.v.listings.v : Listing_dump(o.v.listings.v[k]).ok
         THEN Accepted([o.v EXCEPT !.listings =
                          Obj([k \in DOMAIN o.v.listings.v |->
                                 Obj(Listing_dump(o.v.listings.v[k]).val)])])
         ELSE Rejected

Manufacturer_fields == {"name", "id", "url"}

\* class Manufacturer; `url: URL = None`: the default is not validated, a
\* supplied value is validated as a URL
Manufacturer_validate(p) ==
    IF /\ DOMAIN p \subseteq Manufacturer_fields
       /\ NamedFieldsValid(p)
       /\ "url" \in DOMAIN p => URL_validate(p["url"]).ok
       /\ ~InferRaises(NamedEntity("Manufacturer", p))
    THEN Accepted(Obj([name |-> p["name"],
                       id |-> InferredId("Manufacturer", p),
                       url |-> IF "url" \in DOMAIN p
                               THEN URL_validate(p["url"]).val
                               ELSE Null]))
    ELSE Rejected

\* Manufacturer.model_dump()
Manufacturer_dump(o) ==
    IF URL_serialize(o.v.url).ok
    THEN Accepted([o.v EXCEPT !.url = URL_serialize(o.v.url).val])
    ELSE Rejected

\* class ComponentID
ComponentID ==
    {"bottom_bracket", "brake", "cassette", "chain", "chainring", "crankset",
     "derailleur", "fender", "fork", "frame", "handlebar", "headset", "hub",
     "pedal", "rim", "saddle", "seatpost", "shock", "stem", "tire", "tool",
     "trigger", "wheel", "spare_parts", "other"}

Part_fields == {"name", "id", "component", "manufacturer_id", "variants"}

\* variants: list[Variant]
VariantsValid(v, now) ==
    /\ v.t = "list"
    /\ \A i \in DOMAIN v.v : v.v[i].t = "obj" /\ Variant_validate(v.v[i].v, now).ok

\* class Part
Part_validate(p, now) ==
    IF /\ DOMAIN p \subseteq Part_fields
       /\ NamedFieldsValid(p)
       /\ "component" \in DOMAIN p
       /\ p["component"].t = "enum"
       /\ p["component"].v \in ComponentID
       /\ "manufacturer_id" \in DOMAIN p
       /\ IsID(p["manufacturer_id"])
       /\ "variants" \in DOMAIN p => VariantsValid(p["variants"], now)
       /\ ~InferRaises(NamedEntity("Part", p))
    THEN Accepted(Obj([name |-> p["name"],
                       id |-> InferredId("Part", p),
                       component |-> p["component"],
                       manufacturer_id |-> p["manufacturer_id"],
                       variants |-> IF "variants" \in DOMAIN p
                                    THEN List([i \in DOMAIN p["variants"].v |->
                                                 Variant_validate(p["variants"].v[i].v,
                                                                  now).val])
                                    ELSE List(<< >>)]))
    ELSE Rejected

\* Part.model_dump()
Part_dump(o) ==
    IF \A i \in DOMAIN o.v.variants.v : Variant_dump(o.v.variants.v[i]).ok
    THEN Accepted([o.v EXCEPT !.variants =
                     List([i \in DOMAIN o.v.variants.v |->
                             Obj(Variant_dump(o.v.variants.v[i]).val)])])
    ELSE Rejected

\* class PartScrapeConfigs: part: PartScrapeConfig
PartScrapeConfigs_validate(p) ==
    IF /\ DOMAIN p = {"part"}
       /\ p["part"].t = "obj"
       /\ PageScrapeConfig_validate("PartScrapeConfig", p["part"].v).ok
    THEN Accepted(Obj([part |-> PageScrapeConfig_validate("PartScrapeConfig",
                                                          p["part"].v).val]))
    ELSE Rejected

\* class ScraperConfig: mode, part, search
ScraperConfig_validate(p) ==
    IF /\ DOMAIN p = {"mode", "part", "search"}
       /\ p["mode"] \in {Enum("browser"), Enum("headless")}
       /\ p["part"].t = "obj"
       /\ PartScrapeConfigs_validate(p["part"].v).ok
       /\ p["search"].t = "obj"
       /\ PageScrapeConfig_validate("SearchScrapeConfig", p["search"].v).ok
    THEN Accepted(Obj([mode |-> p["mode"],
                       part |-> PartScrapeConfigs_validate(p["part"].v).val,
                       search |-> PageScrapeConfig_validate("SearchScrapeConfig",
                                                            p["search"].v).val]))
    ELSE Rejected

\* class Currency
Currency == {"EUR", "USD", "GBP", "CHF"}

Shop_fields ==
    {"name", "id", "url", "scraper_config", "currency", "mwst", "shipping_cost"}

\* class Shop
Shop_validate(p) ==
    IF /\ DOMAIN p \subseteq Shop_fields
       /\ NamedFieldsValid(p)
       /\ "url" \in DOMAIN p
       /\ URL_validate(p["url"]).ok
       /\ "scraper_config" \in DOMAIN p
       /\ p["scraper_config"].t = "obj"
       /\ ScraperConfig_validate(p["scraper_config"].v).ok
       /\ "currency" \in DOMAIN p
       /\ p["currency"].t = "enum"
       /\ p["currency"].v \in Currency
       /\ Field(p, "mwst").t \in {"null", "num"}
       /\ Field(p, "shipping_cost").t \in {"null", "num"}
       /\ ~InferRaises(NamedEntity("Shop", p))
    THEN Accepted(Obj([name |-> p["name"],
                       id |-> InferredId("Shop", p),
                       url |-> URL_validate(p["url"]).val,
                       scraper_config |->
                           ScraperConfig_validate(p["scraper_config"].v).val,
                       currency |-> p["currency"],
                       mwst |-> Field(p, "mwst"),
                       shipping_cost |-> Field(p, "shipping_cost")]))
    ELSE Rejected

\* Shop.model_dump()
Shop_dump(o) ==
    IF URL_serialize(o.v.url).ok
    THEN Accepted([o.v EXCEPT !.url = URL_serialize(o.v.url).val])
    ELSE Rejected

Entities == {"Manufacturer", "Shop", "Part", "Variant", "Listing"}

\* cls(**p)
Validate(c, p, now) ==
    IF c = "Manufacturer" THEN Manufacturer_validate(p)
    ELSE IF c = "Shop" THEN Shop_validate(p)
    ELSE IF c = "Part" THEN Part_validate(p, now)
    ELSE IF c = "Variant" THEN Variant_validate(p, now)
    ELSE Listing_validate(p, now)

\* o.model_dump()
Dump(c, o) ==
    IF c = "Manufacturer" THEN Manufacturer_dump(o)
    ELSE IF c = "Shop" THEN Shop_dump(o)
    ELSE IF c = "Part" THEN Part_dump(o)
    ELSE IF c = "Variant" THEN Variant_dump(o)
    ELSE Listing_dump(o)

(***************************************************************************)
(* Construction of one object from one mapping                             *)
(***************************************************************************)
APrice == Obj([value |-> Num(10), currency |-> Str(<<"E","U","R">>)])

PriceTagPayloads ==
    {Payload([price |-> pr, discount |-> d, available |-> a, rating |-> r,
              foo |-> f]) :
        pr \in {Absent, Null, APrice, Str(<<"x">>)},
        d \in {Absent, Null, Bool(TRUE), Bool(FALSE)},
        a \in {Absent, Null, Bool(TRUE), Bool(FALSE)},
        r \in {Absent, Null} \cup {Num(n) : n \in -1..(RatingMax + 1)},
        f \in {Absent, Num(1)}}

\* The price tags carried inside a larger entity's mapping
NestedPriceTags ==
    {Payload([price |-> pr, available |-> a, rating |-> r]) :
        pr \in {Absent, Null, APrice},
        a \in {Absent, Null, Bool(FALSE)},
        r \in {Absent, Null, Num(RatingMax), Num(RatingMax + 1)}}

ProductPricingPayloads ==
    {Payload([timestamp |-> Date(1), part_id |-> Str(<<"p">>),
              variant_id |-> Str(<<"v">>), shop_id |-> s, price_tag |-> pt]) :
        s \in {Str(<<"s">>), Str(<<"S">>)},
        pt \in {Absent, Null} \cup {Obj(t) : t \in NestedPriceTags}}

ScrapeResultPayloads ==
    {Payload([name |-> n, manufacturer |-> m, price |-> pr, discount |-> d,
              available |-> a, rating |-> r, part |-> pa, foo |-> f,
              variant |-> v]) :
        n \in {Absent, Str(<<"X","0">>)},
        m \in {Absent, Null},
        pr \in {Absent, Num(10)},
        d \in {Absent, Bool(TRUE)},
        a \in {Absent, Bool(FALSE)},
        r \in {Absent, Num(RatingMax), Num(RatingMax + 1)},
        pa \in {Absent, Str(<<"x","0">>)},
        f \in {Absent, Num(1)},
        v \in {Absent, Str(<<"v">>)}}

ScrapeFieldsPayloads(c) ==
    {Payload([name |-> n, manufacturer |-> m, price |-> pr, available |-> a,
              rating |-> r, discount |-> d, part |-> pa]) :
        n \in {Absent, Null, Directive},
        m \in {Absent, Null, Directive},
        pr \in {Absent, Null, Directive},
        a \in {Absent, Null, Directive},
        r \in {Absent, Null, Directive},
        d \in {Absent, Null, Directive},
        pa \in IF c = "SearchScrapeFields" THEN {Absent, Null, Directive}
               ELSE {Absent, Directive}}

\* The pieces url templates are put together from
Segments ==
    {<<"/","p","r","o","d","u","c","t","s","/">>, <<"{">>, <<"}">>,
     <<"p","a","r","t">>, <<"q","u","e","r","y">>, <<"s","k","u">>,
     <<"f","i","x","e","d">>, <<Newline>>}

RECURSIVE Flatten(_)
Flatten(ss) == IF ss = << >> THEN << >> ELSE Head(ss) \o Flatten(Tail(ss))

Templates == {Flatten(ss) : ss \in SeqsOf(Segments, 0, MaxSegments)}

\* The `fields` mappings handed to a page config of class c
ConfigFields(c) ==
    {Absent, Obj(<< >>),
     Obj(IF c = "PartScrapeConfig"
         THEN [price |-> Directive, name |-> Null]
         ELSE [part |-> Directive])}

PageScrapeConfigPayloads(c) ==
    {Payload([url_extra |-> u, fields |-> f]) :
        u \in {Absent, Null} \cup {Str(t) : t \in Templates},
        f \in ConfigFields(c)}

\* The readings of the clock behind default_factory=datetime.datetime.utcnow
Clock == 0..MaxClock

UrlTexts ==
    {<<"h","t","t","p",":","/","/","b",".","i","o">>,
     <<"h","t","t","p",":","/","/","b",".","i","o","/">>,
     <<"H","T","T","P","S",":","/","/","B",".","i","o","/","P">>,
     <<"b",".","i","o">>}

ListingPayloads ==
    {Payload([last_modified |-> lm, url |-> u, name |-> n, price_tag |-> pt,
              variables |-> v]) :
        lm \in {Absent, DateTime(0)},
        u \in {Absent, Null} \cup {Str(t) : t \in UrlTexts},
        n \in {Absent, Str(<<"X","0">>)},
        pt \in {Absent} \cup {Obj(t) : t \in NestedPriceTags},
        v \in {Absent, Obj([part |-> Str(<<"x","0">>)])}}

\* The listings carried inside a Variant's mapping
NestedListings ==
    {Payload([url |-> u, price_tag |-> Obj([available |-> Bool(FALSE)]),
              last_modified |-> lm]) :
        u \in {Absent, Str(<<"h","t","t","p",":","/","/","b",".","i","o">>)},
        lm \in {Absent, DateTime(0)}}

VariantPayloads ==
    {Payload([name |-> n, id |-> i, year |-> y, on_wish_list |-> w,
              listings |-> l]) :
        n \in {Absent} \cup {Str(t) : t \in EntityNames},
        i \in {Absent, Str(<<"i","d">>)},
        y \in {Absent, Num(2019)},
        w \in {Absent, Bool(TRUE)},
        l \in {Absent, Null, Obj(<< >>)}
                \cup {Obj([k \in {key} |-> Obj(li)]) :
                        key \in {<<"s">>, <<"S">>}, li \in NestedListings}}

ManufacturerPayloads ==
    {Payload([name |-> n, id |-> i, url |-> u]) :
        n \in {Absent} \cup {Str(t) : t \in EntityNames},
        i \in {Absent, Null} \cup {Str(t) : t \in ExplicitIds},
        u \in {Absent, Null} \cup {Str(t) : t \in UrlTexts}}

\* The variants carried inside a Part's mapping
NestedVariants ==
    {Payload([name |-> Str(<<"X">>), listings |-> l]) :
        l \in {Absent, Obj(<< >>)}}

PartPayloads ==
    {Payload([name |-> n, id |-> i, component |-> c, manufacturer_id |-> m,
              variants |-> vs]) :
        n \in {Str(t) : t \in EntityNames},
        i \in {Absent, Str(<<"i","d">>)},
        c \in {Absent, Enum("frame"), Enum("engine")},
        m \in {Absent} \cup {Str(t) : t \in ManufacturerIds},
        vs \in {Absent, List(<< >>)} \cup {List(<<Obj(v)>>) : v \in NestedVariants}}

\* The url templates of the shops' configs
ShopTemplates ==
    {<<"/","{","p","a","r","t","}">>, <<"/","{","q","u","e","r","y","}">>,
     <<"/","{","s","k","u","}">>, <<"/","f","i","x","e","d">>}

AScraperConfig(u1, u2) ==
    Obj([mode |-> Enum("headless"),
         part |-> Obj([part |-> Obj([url_extra |-> Str(u1),
                                     fields |-> Obj([price |-> Directive])])]),
         search |-> Obj([url_extra |-> Str(u2),
                         fields |-> Obj([part |-> Directive])])])

ShopPayloads ==
    {Payload([name |-> n, url |-> u, scraper_config |-> sc, currency |-> c,
              mwst |-> mw]) :
        n \in {Str(<<"X","0">>), Str(<<"(">>)},
        u \in {Absent} \cup {Str(t) : t \in UrlTexts},
        sc \in {Absent} \cup {AScraperConfig(u1, u2) : u1, u2 \in ShopTemplates},
        c \in {Enum("EUR"), Enum("JPY")},
        mw \in {Absent, Num(8)}}

Done(c, p, out) ==
    /\ cls' = c
    /\ payload' = p
    /\ obj' = out.val
    /\ outcome' = IF out.ok THEN "ok" ELSE "error"
    /\ UNCHANGED <<canonVars, namedVars, tripVars, assigned>>

ConstructPriceTag ==
    /\ outcome = "none"
    /\ \E p \in PriceTagPayloads :
        Done("PriceTag", p, PriceTag_validate(p))

ConstructProductPricing ==
    /\ outcome = "none"
    /\ \E p \in ProductPricingPayloads :
        Done("ProductPricing", p, ProductPricing_validate(p))

ConstructScrapeResult ==
    /\ outcome = "none"
    /\ \E p \in ScrapeResultPayloads :
        Done("ScrapeResult", p, ScrapeResult_validate(p))

ConstructScrapeFields ==
    /\ outcome = "none"
    /\ \E c \in ScrapeFieldsClasses :
        \E p \in ScrapeFieldsPayloads(c) :
            Done(c, p, ScrapeFields_validate(c, p))

ConstructPageScrapeConfig ==
    /\ outcome = "none"
    /\ \E c \in PageScrapeConfigClasses :
        \E p \in PageScrapeConfigPayloads(c) :
            Done(c, p, PageScrapeConfig_validate(c, p))

ConstructListing ==
    /\ outcome = "none"
    /\ \E p \in ListingPayloads, now \in Clock :
        Done("Listing", p, Listing_validate(p, now))

ConstructVariant ==
    /\ outcome = "none"
    /\ \E p \in VariantPayloads, now \in Clock :
        Done("Variant", p, Variant_validate(p, now))

ConstructManufacturer ==
    /\ outcome = "none"
    /\ \E p \in ManufacturerPayloads :
        Done("Manufacturer", p, Manufacturer_validate(p))

ConstructPart ==
    /\ outcome = "none"
    /\ \E p \in PartPayloads, now \in Clock :
        Done("Part", p, Part_validate(p, now))

ConstructShop ==
    /\ outcome = "none"
    /\ \E p \in ShopPayloads :
        Done("Shop", p, Shop_validate(p))

\* wire = obj.model_dump()
Serialize ==
    /\ outcome = "ok"
    /\ cls \in Entities
    /\ dumped = "none"
    /\ dumped' = IF Dump(cls, obj).ok THEN "ok" ELSE "error"
    /\ wire' = IF Dump(cls, obj).ok THEN Dump(cls, obj).val ELSE wire
    /\ UNCHANGED <<canonVars, namedVars, consVars, obj2, outcome2, assigned>>

\* obj2 = cls(**wire)
Revalidate ==
    /\ dumped = "ok"
    /\ outcome2 = "none"
    /\ \E now \in Clock :
        /\ obj2' = Validate(cls, wire, now).val
        /\ outcome2' = IF Validate(cls, wire, now).ok THEN "ok" ELSE "error"
    /\ UNCHANGED <<canonVars, namedVars, consVars, wire, dumped, assigned>>

InitConstruct ==
    /\ IdleCons
    /\ IdleCanon
    /\ IdleNamed
    /\ IdleTrip

NextConstruct ==
    \/ ConstructPriceTag
    \/ ConstructProductPricing
    \/ ConstructScrapeResult
    \/ ConstructScrapeFields
    \/ ConstructPageScrapeConfig
    \/ ConstructListing

SpecConstruct == InitConstruct /\ [][NextConstruct]_vars

NextRoundTrip ==
    \/ ConstructManufacturer
    \/ ConstructShop
    \/ ConstructPart
    \/ ConstructVariant
    \/ ConstructListing
    \/ Serialize
    \/ Revalidate

SpecRoundTrip == InitConstruct /\ [][NextRoundTrip]_vars

\* Whether the mapping p gives no value other than null to any PriceTag field
AllNull(p) ==
    \A k \in {"price", "available", "rating", "discount"} : Field(p, k) = Null

\* The price tag mapping of the last construction, if it carried one
TagOf(c, p) ==
    IF c = "PriceTag"
    THEN p
    ELSE IF "price_tag" \in DOMAIN p /\ p["price_tag"].t = "obj"
         THEN p["price_tag"].v
         ELSE [price |-> Str(<<"x">>)]

\* C2: a PriceTag whose price, available, rating and discount are all null is
\* rejected at construction, also as the price_tag of a Listing or
\* ProductPricing; a PriceTag with only available=false is accepted.
C2_EmptyPriceTagRejected ==
    /\ (cls \in {"PriceTag", "Listing", "ProductPricing"}
          /\ AllNull(TagOf(cls, payload)))
        => outcome = "error"
    /\ PriceTag_validate([available |-> Bool(FALSE)]).ok

\* C9: a ScrapeResult mapping carrying a key outside {name, manufacturer, price,
\* discount, available, rating, part} is rejected, whatever its other fields.
C9_UnknownScrapeFieldRejected ==
    (cls = "ScrapeResult"
       /\ DOMAIN payload \ {"name", "manufacturer", "price", "discount",
                            "available", "rating", "part"} # {})
      => (outcome = "error" /\ obj = Null)

\* C9 witness: the only flaw of a rejected ScrapeResult mapping is the key foo.
C9_Witness ==
    /\ cls = "ScrapeResult"
    /\ outcome = "error"
    /\ "foo" \in DOMAIN payload
    /\ ScrapeResult_validate([k \in DOMAIN payload \ {"foo"} |-> payload[k]]).ok

\* C10: a ScrapeFields object (base, part page or search page) in which every
\* declared target is null is rejected at construction; one with at least one
\* non-null target and its required target present is accepted.
C10_AtLeastOneScrapeTarget ==
    cls \in ScrapeFieldsClasses =>
        /\ (\A k \in ScrapeFields_model_fields(cls) : Field(payload, k) = Null)
             => outcome = "error"
        /\ (/\ DOMAIN payload \subseteq ScrapeFields_model_fields(cls)
            /\ \E k \in DOMAIN payload : payload[k] # Null
            /\ cls = "PartScrapeFields" => Field(payload, "price") # Null
            /\ cls = "SearchScrapeFields" => Field(payload, "part") # Null)
             => (outcome = "ok" /\ obj.t = "obj")

\* C10 witness: a base ScrapeFields mapping naming every target as null was
\* rejected.
C10_Witness ==
    /\ cls = "ScrapeFields"
    /\ outcome = "error"
    /\ DOMAIN payload = ScrapeFields_model_fields("ScrapeFields")
    /\ \A k \in DOMAIN payload : payload[k] = Null

\* The set of placeholders of a template
Placeholders(v) == Range(re_findall(v, 1))

\* C5: a page scrape config accepts url_extra iff its set of {name}
\* placeholders is non-empty and inside the allowed set ({part, variant} for a
\* part page, {query} for a search page); '/products/{part}' is accepted for a
\* part page, '/products/{sku}' and '/products/fixed' are rejected.
C5_TemplateVariableClosure ==
    /\ (/\ cls \in PageScrapeConfigClasses
        /\ DOMAIN payload = {"url_extra", "fields"}
        /\ payload["url_extra"].t = "str"
        /\ payload["fields"] \in ({Obj([price |-> Directive, name |-> Null]),
                                   Obj([part |-> Directive])}))
        => (outcome = "ok" <=>
              /\ Placeholders(payload["url_extra"].v) # {}
              /\ Placeholders(payload["url_extra"].v) \subseteq
                     (IF cls = "PartScrapeConfig"
                      THEN {<<"p","a","r","t">>, <<"v","a","r","i","a","n","t">>}
                      ELSE {<<"q","u","e","r","y">>}))
    /\ validate_url_extra("PartScrapeConfig",
           <<"/","p","r","o","d","u","c","t","s","/","{","p","a","r","t","}">>)
    /\ ~validate_url_extra("PartScrapeConfig",
           <<"/","p","r","o","d","u","c","t","s","/","{","s","k","u","}">>)
    /\ ~validate_url_extra("PartScrapeConfig",
           <<"/","p","r","o","d","u","c","t","s","/","f","i","x","e","d">>)

\* C5 witness: a part page config with url_extra '/products/{part}' was accepted.
C5_Witness ==
    /\ cls = "PartScrapeConfig"
    /\ outcome = "ok"
    /\ obj.v.url_extra =
         Str(<<"/","p","r","o","d","u","c","t","s","/","{","p","a","r","t","}">>)

\* C3: serializing a validated Manufacturer, Shop, Part, Variant or Listing,
\* also one built from its required fields only, and validating the serialized
\* form again succeeds and yields an entity equal to the original in every field.
C3_RoundTrip ==
    (cls \in Entities /\ outcome = "ok")
      => /\ dumped # "error"
         /\ outcome2 # "error"
         /\ outcome2 = "ok" => obj2 = obj

(***************************************************************************)
(* Field assignments on a validated Shop                                   *)
(***************************************************************************)
\* validate_assignment=False: every assignment goes through
validate_assignment_off(ok) == TRUE

\* _BaseModel: validate_assignment=True; ok is the verdict of the validation
\* of the assigned field by the model that owns it
validate_assignment(ok) == ok

\* The values assigned to a url_extra
AssignedTemplates ==
    {Null} \cup {Str(t) : t \in ShopTemplates}
           \cup {Str(<<"/","{","p","a","r","t","}","/","{","v","a","r","i","a","n","t","}">>),
                 Str(<<"/","{","p","a","r","t","}","/","{","q","u","e","r","y","}">>),
                 Str(<<"/","{","}">>)}

Assigning(field, v, ok, o) ==
    /\ assigned' = [field |-> field, value |-> v,
                    result |-> IF ok THEN "ok" ELSE "error"]
    /\ obj' = IF ok THEN o ELSE obj
    /\ UNCHANGED <<canonVars, namedVars, cls, payload, outcome, tripVars>>

\* shop.scraper_config.part.part.url_extra = v
AssignPartUrlExtra ==
    /\ cls = "Shop"
    /\ outcome = "ok"
    /\ \E v \in AssignedTemplates :
        Assigning("scraper_config.part.part.url_extra", v,
                  validate_assignment(IsText(v)
                      /\ validate_url_extra("PartScrapeConfig", v.v)),
                  [obj EXCEPT !.v.scraper_config.v.part.v.part.v.url_extra = v])

\* shop.scraper_config.search.url_extra = v
AssignSearchUrlExtra ==
    /\ cls = "Shop"
    /\ outcome = "ok"
    /\ \E v \in AssignedTemplates :
        Assigning("scraper_config.search.url_extra", v,
                  validate_assignment(IsText(v)
                      /\ validate_url_extra("SearchScrapeConfig", v.v)),
                  [obj EXCEPT !.v.scraper_config.v.search.v.url_extra = v])

\* shop.scraper_config.mode = v
AssignMode ==
    /\ cls = "Shop"
    /\ outcome = "ok"
    /\ \E v \in {Enum("browser"), Enum("headless"), Enum("remote")} :
        Assigning("scraper_config.mode", v,
                  validate_assignment(v \in {Enum("browser"), Enum("headless")}),
                  [obj EXCEPT !.v.scraper_config.v.mode = v])

\* shop.scraper_config = v, v a mapping validated as a ScraperConfig
AssignScraperConfig ==
    /\ cls = "Shop"
    /\ outcome = "ok"
    /\ \E u1 \in ShopTemplates, u2 \in ShopTemplates :
        Assigning("scraper_config", AScraperConfig(u1, u2),
                  validate_assignment(
                      ScraperConfig_validate(AScraperConfig(u1, u2).v).ok),
                  [obj EXCEPT !.v.scraper_config =
                      IF ScraperConfig_validate(AScraperConfig(u1, u2).v).ok
                      THEN ScraperConfig_validate(AScraperConfig(u1, u2).v).val
                      ELSE AScraperConfig(u1, u2)])

\* shop.name = v: the id is set, so infer_id leaves the instance alone
AssignShopName ==
    /\ cls = "Shop"
    /\ outcome = "ok"
    /\ \E v \in {Str(<< >>), Str(<<"Y">>), Str(<<"(">>), Null} :
        Assigning("name", v,
                  validate_assignment(IsText(v) /\ ValidName(v.v)),
                  [obj EXCEPT !.v.name = v])

\* shop.currency = v
AssignCurrency ==
    /\ cls = "Shop"
    /\ outcome = "ok"
    /\ \E v \in {Enum("CHF"), Enum("USD"), Enum("JPY")} :
        Assigning("currency", v,
                  validate_assignment(v.v \in Currency),
                  [obj EXCEPT !.v.currency = v])

NextShop ==
    \/ ConstructShop
    \/ AssignPartUrlExtra
    \/ AssignSearchUrlExtra
    \/ AssignMode
    \/ AssignScraperConfig
    \/ AssignShopName
    \/ AssignCurrency

SpecShop == InitConstruct /\ [][NextShop]_vars

\* Whether v is a template with a placeholder and only placeholders of allowed
Closed(v, allowed) ==
    /\ v.t = "str"
    /\ Placeholders(v.v) # {}
    /\ Placeholders(v.v) \subseteq allowed

PartVariables == {<<"p","a","r","t">>, <<"v","a","r","i","a","n","t">>}

SearchVariables == {<<"q","u","e","r","y">>}

\* C6: assigning to the url_extra of a validated Shop's part page or search
\* page config a template with an undeclared variable or with none fails, so
\* after any sequence of accepted and rejected assignments each url_extra has a
\* placeholder and only placeholders of its allowed set.
C6_ShopTemplatesStayClosed ==
    (cls = "Shop" /\ outcome = "ok") =>
        /\ Closed(obj.v.scraper_config.v.part.v.part.v.url_extra, PartVariables)
        /\ Closed(obj.v.scraper_config.v.search.v.url_extra, SearchVariables)
        /\ (assigned.field = "scraper_config.part.part.url_extra"
              /\ ~Closed(assigned.value, PartVariables))
            => assigned.result = "error"
        /\ (assigned.field = "scraper_config.search.url_extra"
              /\ ~Closed(assigned.value, SearchVariables))
            => assigned.result = "error"

\* C6 witness: '/{sku}' was assigned to the part page url_extra of a Shop whose
\* template an earlier assignment had changed; the assignment failed.
C6_Witness ==
    /\ cls = "Shop"
    /\ outcome = "ok"
    /\ assigned.field = "scraper_config.part.part.url_extra"
    /\ assigned.value = Str(<<"/","{","s","k","u","}">>)
    /\ assigned.result = "error"
    /\ obj.v.scraper_config.v.part.v.part.v.url_extra
         # payload["scraper_config"].v["part"].v["part"].v["url_extra"]

====
